---- MODULE Spec2Model ----
(***************************************************************************)
(* The infinite canvas of src/components/features/InfiniteCanvasTab.tsx:   *)
(* the item store, the z-order counter, the selection, and the             *)
(* asynchronous generation / edit jobs with the values their closures      *)
(* captured when they were started.                                        *)
(*                                                                         *)
(* React state is read by a handler from the render it was created in.     *)
(* User events are handled one at a time with a render in between, so a    *)
(* user handler reads the current state.  An async continuation (the code  *)
(* after an await, a setTimeout or an onload callback) still reads the     *)
(* values of the render in which the operation was started: they are kept  *)
(* in the job / upload records below.  Functional updaters                 *)
(* (setItems(prev => ...)) act on the current state.                       *)
(***************************************************************************)
EXTENDS Integers, Sequences, FiniteSets, TLC

VARIABLES
    items,          \* useState<CanvasItem[]>            (line 100)
    view,           \* useState<ViewState>               (line 101)
    activeItemId,   \* useState<string | null>           (line 104)
    selectedIds,    \* useState<Set<string>>             (line 105)
    isDragging,     \* useState(false)                   (line 113)
    dragStart,      \* useState({x, y})                  (line 114)
    dragMode,       \* useState<'canvas'|'item'|'selection'> (line 115)
    topZ,           \* useState(10)                      (line 122)
    selectionBox,   \* useState<SelectionBox | null>     (line 107)
    clipboard,      \* useState<CanvasItem[]>            (line 110)
    isSpacePressed, \* useState(false)                   (line 116)
    mousePos,       \* mousePosRef.current               (line 119)
    preDragSelection, \* history: selectedIds as the selection box was started
    serverUrl,      \* App's useState, passed as a prop  (App.tsx line 5)
    jobs,           \* the executeGeneration / executeEdit calls in flight
    jobCount,       \* how many such calls have reached their first await
    uploads,        \* handleUpload calls whose image has not loaded yet
    nextId,         \* the ids Math.random() has handed out so far
    alertMsg        \* the alert() the last handler raised, or NoAlert

vars == <<items, view, activeItemId, selectedIds, isDragging, dragStart,
          dragMode, topZ, selectionBox, clipboard, isSpacePressed, mousePos,
          preDragSelection, serverUrl, jobs, jobCount, uploads, nextId,
          alertMsg>>

----------------------------------------------------------------------------
(* Bounds of the model *)

MaxItems == 3        \* ids handed out: items ever created
MaxJobs  == 1        \* executeGeneration / executeEdit calls that start a job
MaxJobsInFlight == 2  \* calls that start a job, where two jobs are followed
MaxPolls == 2        \* non-terminal polls of one job
MaxTopZ  == 14       \* item pointer-downs stop once topZ reaches this
MaxViewDen == 2     \* largest denominator of a viewport number that is followed
MaxPan == 400       \* largest pan, in pixels, that is followed
MaxPasted == 4      \* ids handed out where a batch of two items is pasted

----------------------------------------------------------------------------
(* Values *)

NoId == 0                       \* null / undefined id
Ids == 1 .. MaxItems
InitialTopZ == 10
NoAlert == "none"
UrlAlert == "Please check Server URL"
NoTargetAlert == "No target image selected"
TargetMissingAlert == "Target image not found"
NoSourceAlert == "No source image"
NetworkAlert == "request failed"      \* e.message of a rejected fetch

DefaultServerUrl == "https://17610400098.top"
ServerUrls == {"", DefaultServerUrl}

\* window.innerWidth / innerHeight and the natural size of a loaded image
Window == [innerWidth |-> 800, innerHeight |-> 600]
ImgSizes == {[w |-> 400, h |-> 200]}
NoBox == [startX |-> -1, startY |-> -1, currentX |-> -1, currentY |-> -1]  \* null

Min(a, b) == IF a < b THEN a ELSE b
Max(a, b) == IF a < b THEN b ELSE a
Abs(a) == IF a < 0 THEN -a ELSE a

\* The viewport's numbers (view.x, view.y, view.scale) are JavaScript
\* numbers; they are kept here as exact fractions n/d in lowest terms with
\* d > 0, so that products and quotients lose nothing.  Item coordinates
\* are whole numbers: a quotient that lands in one is rounded down.
RECURSIVE GCD(_, _)
GCD(a, b) == IF b = 0 THEN a ELSE GCD(b, a % b)
Rat(n, d) ==
    LET sgn == IF d < 0 THEN -1 ELSE 1
        g == GCD(Abs(n), Abs(d))
    IN  [n |-> (sgn * n) \div g, d |-> (sgn * d) \div g]
RInt(i) == [n |-> i, d |-> 1]
RAdd(a, b) == Rat(a.n * b.d + b.n * a.d, a.d * b.d)
RSub(a, b) == Rat(a.n * b.d - b.n * a.d, a.d * b.d)
RMul(a, b) == Rat(a.n * b.n, a.d * b.d)
RDiv(a, b) == Rat(a.n * b.d, a.d * b.n)
RLess(a, b) == a.n * b.d < b.n * a.d
RMin(a, b) == IF RLess(a, b) THEN a ELSE b
RMax(a, b) == IF RLess(a, b) THEN b ELSE a
RFloor(a) == a.n \div a.d

ScaleOne == RInt(1)             \* scale: 1
\* (screen - view.x) / view.scale
WorldOf(screen, pan, scale) == RDiv(RSub(RInt(screen), pan), scale)

\* What getHistory answers for a prompt id: no entry yet, status 'success'
\* with an image in the outputs, status 'success' with no image, status
\* 'error'; "throw" is a rejected getHistory / getLogs request.
HistoryStatus == {"pending", "success", "success_noimg", "error", "throw"}
\* parseConsoleProgress(logs, 20): 0 when the log shows no progress
ParsedProgress == {0, 50}

\* services/api ensureHttps: the normalised endpoint, or "" (falsy) when the
\* configured address is unset or invalid
ensureHttps(u) == IF u = "" THEN "" ELSE u

----------------------------------------------------------------------------
(* Items *)

\* ImageItem literal (lines 409-418, 539-548, 652-662, 780-790).  Optional
\* fields that are absent read as 0 / FALSE / "none".
ImageItem(id, x, y, w, h, z, parent) ==
    [id |-> id, type |-> "image", x |-> x, y |-> y, width |-> w, height |-> h,
     zIndex |-> z, parentId |-> parent, src |-> 1,
     editPrompt |-> 0, isEditing |-> FALSE, editProgress |-> 0,
     isGenerating |-> FALSE, progress |-> 0, mode |-> "none",
     resultImage |-> 0, targetId |-> NoId]

GeneratorItem(id, x, y, z) ==
    [id |-> id, type |-> "generator", x |-> x, y |-> y, width |-> 400,
     height |-> 400, zIndex |-> z, parentId |-> NoId, src |-> 0,
     editPrompt |-> 0, isEditing |-> FALSE, editProgress |-> 0,
     isGenerating |-> FALSE, progress |-> 0, mode |-> "input",
     resultImage |-> 0, targetId |-> NoId]

EditorItem(id, x, y, z, parent, target) ==
    [id |-> id, type |-> "editor", x |-> x, y |-> y, width |-> 300,
     height |-> 350, zIndex |-> z, parentId |-> parent, src |-> 0,
     editPrompt |-> 0, isEditing |-> FALSE, editProgress |-> 0,
     isGenerating |-> FALSE, progress |-> 0, mode |-> "none",
     resultImage |-> 0, targetId |-> target]

ItemIds(its) == {its[i].id : i \in DOMAIN its}
Has(its, id) == id \in ItemIds(its)

\* items.find(i => i.id === id): the first match
Find(its, id) ==
    its[CHOOSE i \in DOMAIN its :
            /\ its[i].id = id
            /\ \A k \in DOMAIN its : its[k].id = id => i <= k]

\* { ...item, ...patch }
Merge(r, patch) ==
    [f \in DOMAIN r |-> IF f \in DOMAIN patch THEN patch[f] ELSE r[f]]

\* Every call site passes the id of a generator or an editor item.
\* updateItemData without the test on the id
updateItemData_Every(its, id, partialData) ==
    [i \in DOMAIN its |-> Merge(its[i], partialData)]

updateItemData(its, id, partialData) ==
    [i \in DOMAIN its |->
        IF its[i].id = id THEN Merge(its[i], partialData) ELSE its[i]]

updateImageItem(its, id, partialData) ==
    [i \in DOMAIN its |->
        IF its[i].id = id /\ its[i].type = "image"
        THEN Merge(its[i], partialData) ELSE its[i]]

----------------------------------------------------------------------------
Init ==
    /\ items = <<>>
    /\ view = [x |-> RInt(0), y |-> RInt(0), scale |-> ScaleOne]
    /\ activeItemId = NoId
    /\ selectedIds = {}
    /\ isDragging = FALSE
    /\ dragStart = [x |-> 0, y |-> 0]
    /\ dragMode = "canvas"
    /\ topZ = InitialTopZ
    /\ selectionBox = NoBox
    /\ clipboard = <<>>
    /\ isSpacePressed = FALSE
    /\ mousePos = [x |-> 0, y |-> 0]
    /\ preDragSelection = {}
    /\ serverUrl = DefaultServerUrl
    /\ jobs = <<>>
    /\ jobCount = 0
    /\ uploads = <<>>
    /\ nextId = 1
    /\ alertMsg = NoAlert

----------------------------------------------------------------------------
(* User actions on the item store *)

\* Every handler but the ones that call alert() leaves no alert behind;
\* the viewport is only read here.
Quiet == alertMsg' = NoAlert /\ UNCHANGED view
NoDragChange == UNCHANGED <<isDragging, dragStart, dragMode, preDragSelection>>
NoInputChange == UNCHANGED <<selectionBox, clipboard, isSpacePressed, mousePos>>
NoAsyncChange == UNCHANGED <<jobs, jobCount, uploads, serverUrl>>

addGeneratorNode ==
    /\ nextId <= MaxItems
    /\ LET id == nextId
           centerX == RFloor(WorldOf(Window.innerWidth \div 2 - 200, view.x, view.scale))
           centerY == RFloor(WorldOf(Window.innerHeight \div 2 - 200, view.y, view.scale))
       IN  /\ items' = Append(items, GeneratorItem(id, centerX, centerY, topZ + 1))
           /\ activeItemId' = id
           /\ selectedIds' = {id}
    /\ topZ' = topZ + 1
    /\ nextId' = nextId + 1
    /\ Quiet /\ NoDragChange /\ NoInputChange /\ NoAsyncChange

addEditNode ==
    /\ nextId <= MaxItems
    /\ LET id == nextId
           found == \E i \in DOMAIN items :
                        items[i].id = activeItemId /\ items[i].type = "image"
           selectedImage == Find(items, activeItemId)
           centerX == IF found THEN selectedImage.x + selectedImage.width + 20
                      ELSE RFloor(WorldOf(Window.innerWidth \div 2 - 160, view.x, view.scale))
           centerY == IF found THEN selectedImage.y
                      ELSE RFloor(WorldOf(Window.innerHeight \div 2 - 150, view.y, view.scale))
           ref == IF found THEN selectedImage.id ELSE NoId
       IN  /\ items' = Append(items, EditorItem(id, centerX, centerY, topZ + 1, ref, ref))
           /\ activeItemId' = id
           /\ selectedIds' = {id}
    /\ topZ' = topZ + 1
    /\ nextId' = nextId + 1
    /\ Quiet /\ NoDragChange /\ NoInputChange /\ NoAsyncChange

\* handleUpload up to reader.readAsDataURL: the onload callbacks keep the
\* view and topZ of this render.
handleUpload ==
    /\ nextId + Len(uploads) <= MaxItems
    /\ uploads' = Append(uploads, [view |-> view, topZ |-> topZ])
    /\ alertMsg' = NoAlert
    /\ UNCHANGED <<items, view, activeItemId, selectedIds, topZ, serverUrl,
                   jobs, jobCount, nextId>>
    /\ NoDragChange /\ NoInputChange

\* img.onload of handleUpload
handleUploadLoaded(u, img) ==
    /\ u \in DOMAIN uploads
    /\ nextId <= MaxItems
    /\ LET up == uploads[u]
           newItem == ImageItem(nextId,
                        RFloor(WorldOf(Window.innerWidth \div 2 - img.w \div 4,
                                       up.view.x, up.view.scale)),
                        RFloor(WorldOf(Window.innerHeight \div 2 - img.h \div 4,
                                       up.view.y, up.view.scale)),
                        img.w \div 2, img.h \div 2, up.topZ + 1, NoId)
       IN  /\ items' = Append(items, newItem)
           /\ activeItemId' = newItem.id
           /\ selectedIds' = {newItem.id}
    /\ topZ' = topZ + 1
    /\ nextId' = nextId + 1
    /\ uploads' = [k \in 1 .. Len(uploads) - 1 |->
                      IF k < u THEN uploads[k] ELSE uploads[k + 1]]
    /\ Quiet /\ NoDragChange /\ NoInputChange
    /\ UNCHANGED <<jobs, jobCount, serverUrl>>

\* handleItemMouseDown that reuses the current top instead of going above it
handleItemMouseDown_SameZ(id, shiftKey, onControl, p) ==
    /\ Has(items, id)
    /\ topZ < MaxTopZ
    /\ topZ' = topZ + 1
    /\ items' = [i \in DOMAIN items |->
                    IF items[i].id = id
                    THEN [items[i] EXCEPT !.zIndex = topZ] ELSE items[i]]
    /\ selectedIds' = {id}
    /\ activeItemId' = id
    /\ dragMode' = "item"
    /\ isDragging' = TRUE
    /\ dragStart' = p
    /\ alertMsg' = NoAlert
    /\ UNCHANGED <<view, selectionBox, clipboard, isSpacePressed, mousePos,
                   preDragSelection,
                   serverUrl, jobs, jobCount, uploads, nextId>>

\* handleItemMouseDown without the shift and already-selected cases
handleItemMouseDown_Replace(id, shiftKey, onControl, p) ==
    /\ Has(items, id)
    /\ Find(items, id).type # "editor"
    /\ topZ < MaxTopZ
    /\ topZ' = topZ + 1
    /\ items' = [i \in DOMAIN items |->
                    IF items[i].id = id
                    THEN [items[i] EXCEPT !.zIndex = topZ + 1] ELSE items[i]]
    /\ selectedIds' = {id}
    /\ activeItemId' = id
    /\ dragMode' = "item"
    /\ isDragging' = TRUE
    /\ dragStart' = p
    /\ alertMsg' = NoAlert
    /\ UNCHANGED <<view, selectionBox, clipboard, isSpacePressed, mousePos,
                   preDragSelection,
                   serverUrl, jobs, jobCount, uploads, nextId>>

\* Pointer-down on an item.  The editor node's content stops the event
\* (line 1115), so it reaches this handler only for images and generators;
\* a press on a button inside the node (onControl) exists for generators.
handleItemMouseDown(id, shiftKey, onControl, p) ==
    /\ Has(items, id)
    /\ Find(items, id).type # "editor"
    /\ onControl => Find(items, id).type = "generator"
    /\ topZ < MaxTopZ
    /\ LET newZ == topZ + 1 IN
        /\ topZ' = newZ
        /\ items' = [i \in DOMAIN items |->
                        IF items[i].id = id
                        THEN [items[i] EXCEPT !.zIndex = newZ] ELSE items[i]]
    /\ IF shiftKey
       THEN IF id \in selectedIds
            THEN /\ selectedIds' = selectedIds \ {id}
                 /\ activeItemId' = IF activeItemId = id THEN NoId ELSE activeItemId
            ELSE /\ selectedIds' = selectedIds \cup {id}
                 /\ activeItemId' = id
       ELSE /\ selectedIds' = IF id \in selectedIds THEN selectedIds ELSE {id}
            /\ activeItemId' = id
    /\ IF onControl
       THEN NoDragChange
       ELSE /\ dragMode' = "item"
            /\ isDragging' = TRUE
            /\ dragStart' = p
            /\ UNCHANGED preDragSelection
    /\ Quiet /\ NoAsyncChange /\ NoInputChange
    /\ UNCHANGED nextId

\* Pointer-down on an editor node: its root element stops the event (line
\* 1115) before it reaches the wrapper's handleItemMouseDown (line 1228) or
\* the canvas's handleMouseDown, so no handler runs.
editorMouseDown(id) ==
    /\ Has(items, id)
    /\ Find(items, id).type = "editor"
    /\ UNCHANGED vars

handleMouseUp ==
    /\ isDragging' = FALSE
    /\ selectionBox' = NoBox
    /\ dragMode' = "canvas"
    /\ UNCHANGED <<clipboard, isSpacePressed, mousePos, preDragSelection>>
    /\ Quiet /\ NoAsyncChange
    /\ UNCHANGED <<items, activeItemId, selectedIds, dragStart, topZ, nextId>>

\* removeItem that also removes the items derived from the removed one
removeItem_Cascade(id) ==
    /\ Has(items, id)
    /\ items' = SelectSeq(items, LAMBDA i : i.id # id /\ i.parentId # id)
    /\ activeItemId' = IF activeItemId = id THEN NoId ELSE activeItemId
    /\ selectedIds' = selectedIds \ {id}
    /\ alertMsg' = NoAlert
    /\ UNCHANGED <<view, isDragging, dragStart, dragMode, preDragSelection, topZ,
                   selectionBox,
                   clipboard, isSpacePressed, mousePos, serverUrl, jobs,
                   jobCount, uploads, nextId>>

\* removeItem that leaves the removed id in the selection
removeItem_KeepSelection(id) ==
    /\ Has(items, id)
    /\ items' = SelectSeq(items, LAMBDA i : i.id # id)
    /\ activeItemId' = IF activeItemId = id THEN NoId ELSE activeItemId
    /\ alertMsg' = NoAlert
    /\ UNCHANGED <<view, selectedIds, isDragging, dragStart, dragMode,
                   preDragSelection, topZ, selectionBox, clipboard,
                   isSpacePressed, mousePos, serverUrl, jobs, jobCount,
                   uploads, nextId>>

removeItem(id) ==
    /\ Has(items, id)
    /\ items' = SelectSeq(items, LAMBDA i : i.id # id)
    /\ activeItemId' = IF activeItemId = id THEN NoId ELSE activeItemId
    /\ selectedIds' = selectedIds \ {id}
    /\ Quiet /\ NoDragChange /\ NoInputChange /\ NoAsyncChange
    /\ UNCHANGED <<topZ, nextId>>

\* handleKeyDownDelete that also drops the deleted items from the clipboard
handleKeyDownDelete_Live ==
    /\ selectedIds # {}
    /\ items' = SelectSeq(items, LAMBDA i : i.id \notin selectedIds)
    /\ clipboard' = SelectSeq(clipboard, LAMBDA i : i.id \notin selectedIds)
    /\ selectedIds' = {}
    /\ activeItemId' = NoId
    /\ alertMsg' = NoAlert
    /\ UNCHANGED <<view, isDragging, dragStart, dragMode, preDragSelection, topZ,
                   selectionBox,
                   isSpacePressed, mousePos, serverUrl, jobs, jobCount,
                   uploads, nextId>>

\* handleKeyDown, Delete / Backspace outside a text field
handleKeyDownDelete ==
    /\ selectedIds # {}
    /\ items' = SelectSeq(items, LAMBDA i : i.id \notin selectedIds)
    /\ selectedIds' = {}
    /\ activeItemId' = NoId
    /\ Quiet /\ NoDragChange /\ NoInputChange /\ NoAsyncChange
    /\ UNCHANGED <<topZ, nextId>>

\* The server URL field (line 1277)
setServerUrl(u) ==
    /\ u \in ServerUrls
    /\ u # serverUrl
    /\ serverUrl' = u
    /\ alertMsg' = NoAlert
    /\ NoDragChange /\ NoInputChange
    /\ UNCHANGED <<items, view, activeItemId, selectedIds, topZ, jobs, jobCount,
                   uploads, nextId>>

\* Typing in the edit overlay of an image or of a generator's result
\* (lines 932, 1067): prompt is 1 for a non-empty text, 0 for ''.
editPromptChange(id, prompt) ==
    /\ Has(items, id)
    /\ LET item == Find(items, id) IN
        /\ \/ item.type = "image"
           \/ item.type = "generator" /\ item.mode = "result"
        /\ item.editPrompt # prompt
        /\ items' = IF item.type = "image"
                    THEN updateImageItem(items, id, [editPrompt |-> prompt])
                    ELSE updateItemData(items, id, [editPrompt |-> prompt])
    /\ Quiet /\ NoDragChange /\ NoInputChange /\ NoAsyncChange
    /\ UNCHANGED <<activeItemId, selectedIds, topZ, nextId>>

\* 'Back to Prompt' on a generator's result (line 1074)
backToPrompt(id) ==
    /\ Has(items, id)
    /\ Find(items, id).type = "generator"
    /\ Find(items, id).mode = "result"
    /\ items' = updateItemData(items, id, [mode |-> "input"])
    /\ Quiet /\ NoDragChange /\ NoInputChange /\ NoAsyncChange
    /\ UNCHANGED <<activeItemId, selectedIds, topZ, nextId>>

\* The editor node's target picker: '×' clears it (line 1128), a thumbnail
\* of an image sets it (line 1139).
setTarget(id, target) ==
    /\ Has(items, id)
    /\ Find(items, id).type = "editor"
    /\ LET item == Find(items, id)
           shown == \E i \in DOMAIN items :
                        items[i].id = item.targetId /\ items[i].type = "image"
       IN  IF shown
           THEN target = NoId
           ELSE \E i \in DOMAIN items :
                    items[i].id = target /\ items[i].type = "image"
    /\ items' = updateItemData(items, id, [targetId |-> target])
    /\ Quiet /\ NoDragChange /\ NoInputChange /\ NoAsyncChange
    /\ UNCHANGED <<activeItemId, selectedIds, topZ, nextId>>

----------------------------------------------------------------------------
(* The viewport: wheel zoom, zoom buttons, reset *)

MinScale == Rat(1, 10)          \* 0.1
MaxScale == RInt(5)
ZoomStep == Rat(6, 5)           \* 1.2
WheelDeltas == {-1000, 500, 2000}     \* e.deltaY
Points == {[x |-> 0, y |-> 0], [x |-> 400, y |-> 300]}

\* The fractions of the viewport stay small enough to be followed
ViewInBounds ==
    /\ view.scale.d <= MaxViewDen /\ view.scale.n <= 5 * MaxViewDen
    /\ view.x.d <= MaxViewDen /\ view.y.d <= MaxViewDen
    /\ Abs(view.x.n) <= MaxPan * view.x.d
    /\ Abs(view.y.n) <= MaxPan * view.y.d

NoItemChange == UNCHANGED <<items, activeItemId, selectedIds, topZ, nextId>>

\* WheelScale without the lower limit
WheelScale_NoFloor(scale, deltaY) ==
    RMin(RMul(scale, RAdd(RInt(1), Rat(-deltaY, 1000))), MaxScale)

\* newScale of handleWheel (lines 260-261)
WheelScale(scale, deltaY) ==
    RMin(RMax(MinScale, RMul(scale, RAdd(RInt(1), Rat(-deltaY, 1000)))), MaxScale)

\* WheelPan with the pan left where it was
WheelPan_Unanchored(mouse, pan, scale, newScale) == pan

\* newX / newY of handleWheel (lines 268-272), mouse being e.clientX - rect.left
WheelPan(mouse, pan, scale, newScale) ==
    RSub(RInt(mouse), RMul(WorldOf(mouse, pan, scale), newScale))

\* handleWheel outside a textarea; the container fills the window, so
\* rect.left = rect.top = 0
handleWheel(deltaY, p) ==
    /\ ViewInBounds
    /\ LET newScale == WheelScale(view.scale, deltaY) IN
        view' = [x |-> WheelPan(p.x, view.x, view.scale, newScale),
                 y |-> WheelPan(p.y, view.y, view.scale, newScale),
                 scale |-> newScale]
    /\ alertMsg' = NoAlert
    /\ NoItemChange /\ NoDragChange /\ NoInputChange /\ NoAsyncChange

\* The zoom-out button (line 1286)
zoomOut ==
    /\ ViewInBounds
    /\ view' = [view EXCEPT !.scale = RMax(RDiv(view.scale, ZoomStep), MinScale)]
    /\ alertMsg' = NoAlert
    /\ NoItemChange /\ NoDragChange /\ NoInputChange /\ NoAsyncChange

\* The zoom-in button (line 1288)
zoomIn ==
    /\ ViewInBounds
    /\ view' = [view EXCEPT !.scale = RMin(RMul(view.scale, ZoomStep), MaxScale)]
    /\ alertMsg' = NoAlert
    /\ NoItemChange /\ NoDragChange /\ NoInputChange /\ NoAsyncChange

\* The reset button (line 1292)
resetView ==
    /\ view' = [x |-> RInt(0), y |-> RInt(0), scale |-> ScaleOne]
    /\ alertMsg' = NoAlert
    /\ NoItemChange /\ NoDragChange /\ NoInputChange /\ NoAsyncChange

----------------------------------------------------------------------------
(* Pointer and keyboard on the canvas *)

\* Space pressed (handleKeyDown) or released (handleKeyUp)
handleKeySpace(down) ==
    /\ isSpacePressed # down
    /\ isSpacePressed' = down
    /\ UNCHANGED <<selectionBox, clipboard, mousePos>>
    /\ Quiet /\ NoItemChange /\ NoDragChange /\ NoAsyncChange

\* The items drawn under the screen point p (left, top, width, height of the
\* item wrappers inside the translated and scaled layer, lines 1208-1227)
ItemsAt(p) ==
    {items[i].id : i \in {k \in DOMAIN items :
        LET wx == WorldOf(p.x, view.x, view.scale)
            wy == WorldOf(p.y, view.y, view.scale)
        IN  /\ ~RLess(wx, RInt(items[k].x))
            /\ RLess(wx, RInt(items[k].x + items[k].width))
            /\ ~RLess(wy, RInt(items[k].y))
            /\ RLess(wy, RInt(items[k].y + items[k].height))}}

\* handleMouseDown that starts a selection box for every press
handleMouseDown_NoPan(p, shiftKey, middle) ==
    /\ ItemsAt(p) = {}
    /\ dragMode' = "selection"
    /\ selectedIds' = {} /\ activeItemId' = NoId
    /\ preDragSelection' = {}
    /\ selectionBox' = [startX |-> p.x, startY |-> p.y,
                        currentX |-> p.x, currentY |-> p.y]
    /\ isDragging' = TRUE
    /\ dragStart' = p
    /\ alertMsg' = NoAlert
    /\ UNCHANGED <<items, view, topZ, nextId, clipboard, isSpacePressed,
                   mousePos, serverUrl, jobs, jobCount, uploads>>

\* handleMouseDown on the canvas background (isCanvasBg: no item is under
\* the pointer); middle is e.button === 1
handleMouseDown(p, shiftKey, middle) ==
    /\ ItemsAt(p) = {}
    /\ IF isSpacePressed \/ middle
       THEN /\ dragMode' = "canvas"
            /\ UNCHANGED <<selectedIds, activeItemId, selectionBox,
                           preDragSelection>>
       ELSE /\ dragMode' = "selection"
            /\ IF shiftKey
               THEN UNCHANGED <<selectedIds, activeItemId>>
               ELSE selectedIds' = {} /\ activeItemId' = NoId
            /\ preDragSelection' = selectedIds'
            /\ selectionBox' = [startX |-> p.x, startY |-> p.y,
                                currentX |-> p.x, currentY |-> p.y]
    /\ isDragging' = TRUE
    /\ dragStart' = p
    /\ UNCHANGED <<items, topZ, nextId, clipboard, isSpacePressed, mousePos>>
    /\ Quiet /\ NoAsyncChange

\* Panned with the scale following the pointer
Panned_Rescaled(v, dx, dy) ==
    [x |-> RAdd(v.x, RInt(dx)), y |-> RAdd(v.y, RInt(dy)),
     scale |-> RAdd(v.scale, Rat(Abs(dx) + Abs(dy), 1000))]

\* The pan of a canvas drag (line 339)
Panned(v, dx, dy) ==
    [v EXCEPT !.x = RAdd(v.x, RInt(dx)), !.y = RAdd(v.y, RInt(dy))]

\* The ids the selection box from (startX, startY) to p meets (345-372)
BoxHits(box, p) ==
    LET boxX == Min(box.startX, p.x)
        boxY == Min(box.startY, p.y)
        boxW == Abs(p.x - box.startX)
        boxH == Abs(p.y - box.startY)
        worldX == WorldOf(boxX, view.x, view.scale)
        worldY == WorldOf(boxY, view.y, view.scale)
        worldW == RDiv(RInt(boxW), view.scale)
        worldH == RDiv(RInt(boxH), view.scale)
    IN  {items[i].id : i \in {k \in DOMAIN items :
            /\ RLess(RInt(items[k].x), RAdd(worldX, worldW))
            /\ RLess(worldX, RInt(items[k].x + items[k].width))
            /\ RLess(RInt(items[k].y), RAdd(worldY, worldH))
            /\ RLess(worldY, RInt(items[k].y + items[k].height))}}

\* handleMouseMove: the pointer is tracked; a drag moves the selected items,
\* pans the canvas or stretches the selection box
\* handleMouseMove whose item drag measures from the press and never
\* re-samples the drag origin
handleMouseMove_FromPress(p, shiftKey) ==
    /\ mousePos' = p
    /\ LET dx == p.x - dragStart.x
           dy == p.y - dragStart.y
       IN
        IF isDragging /\ dragMode = "item"
        THEN /\ items' = [i \in DOMAIN items |->
                    IF items[i].id \in selectedIds
                    THEN [items[i] EXCEPT
                            !.x = @ + RFloor(RDiv(RInt(dx), view.scale)),
                            !.y = @ + RFloor(RDiv(RInt(dy), view.scale))]
                    ELSE items[i]]
             /\ UNCHANGED <<view, dragStart, selectionBox, selectedIds>>
        ELSE IF isDragging /\ dragMode = "canvas"
        THEN /\ ViewInBounds
             /\ view' = Panned(view, dx, dy)
             /\ dragStart' = p
             /\ UNCHANGED <<items, selectionBox, selectedIds>>
        ELSE IF isDragging /\ dragMode = "selection" /\ selectionBox # NoBox
        THEN /\ selectionBox' = [selectionBox EXCEPT !.currentX = p.x, !.currentY = p.y]
             /\ selectedIds' = (IF shiftKey THEN selectedIds ELSE {})
                                    \cup BoxHits(selectionBox, p)
             /\ UNCHANGED <<items, view, dragStart>>
        ELSE UNCHANGED <<items, view, dragStart, selectionBox, selectedIds>>
    /\ alertMsg' = NoAlert
    /\ UNCHANGED <<activeItemId, topZ, nextId, isDragging, dragMode, clipboard,
                   isSpacePressed, preDragSelection, jobs, jobCount, uploads,
                   serverUrl>>

handleMouseMove(p, shiftKey) ==
    /\ mousePos' = p
    /\ LET dx == p.x - dragStart.x
           dy == p.y - dragStart.y
       IN
        IF isDragging /\ dragMode = "item"
        THEN /\ items' = [i \in DOMAIN items |->
                    IF items[i].id \in selectedIds
                    THEN [items[i] EXCEPT
                            !.x = @ + RFloor(RDiv(RInt(dx), view.scale)),
                            !.y = @ + RFloor(RDiv(RInt(dy), view.scale))]
                    ELSE items[i]]
             /\ dragStart' = p
             /\ UNCHANGED <<view, selectionBox, selectedIds>>
        ELSE IF isDragging /\ dragMode = "canvas"
        THEN /\ ViewInBounds
             /\ view' = Panned(view, dx, dy)
             /\ dragStart' = p
             /\ UNCHANGED <<items, selectionBox, selectedIds>>
        ELSE IF isDragging /\ dragMode = "selection" /\ selectionBox # NoBox
        THEN /\ selectionBox' = [selectionBox EXCEPT !.currentX = p.x, !.currentY = p.y]
             /\ selectedIds' = (IF shiftKey THEN selectedIds ELSE {})
                                    \cup BoxHits(selectionBox, p)
             /\ UNCHANGED <<items, view, dragStart>>
        ELSE UNCHANGED <<items, view, dragStart, selectionBox, selectedIds>>
    /\ alertMsg' = NoAlert
    /\ UNCHANGED <<activeItemId, topZ, nextId, isDragging, dragMode, clipboard,
                   isSpacePressed, preDragSelection>>
    /\ NoAsyncChange

----------------------------------------------------------------------------
(* Copy and paste *)

\* handleKeyDown, Ctrl+C (lines 214-219)
handleKeyDownCopy ==
    /\ selectedIds # {}
    /\ clipboard' = SelectSeq(items, LAMBDA i : i.id \in selectedIds)
    /\ UNCHANGED <<selectionBox, isSpacePressed, mousePos>>
    /\ Quiet /\ NoItemChange /\ NoDragChange /\ NoAsyncChange

RECURSIVE SeqMin(_), SeqMax(_)
SeqMin(sq) == IF Len(sq) = 1 THEN sq[1] ELSE Min(sq[1], SeqMin(Tail(sq)))
SeqMax(sq) == IF Len(sq) = 1 THEN sq[1] ELSE Max(sq[1], SeqMax(Tail(sq)))

\* The id pasteItems gives the copy of the k-th clipboard item
PastedId(k) == nextId + k - 1

\* PastedItem that keeps the id of the item it copies
PastedItem_SameId(k, dx, dy) ==
    [clipboard[k] EXCEPT !.x = @ + dx, !.y = @ + dy, !.zIndex = topZ + k,
                         !.parentId = NoId]

\* PastedItem one step above the counter pasteItems writes
PastedItem_Above(k, dx, dy) ==
    [clipboard[k] EXCEPT !.id = PastedId(k), !.x = @ + dx, !.y = @ + dy,
                         !.zIndex = topZ + k + 1, !.parentId = NoId,
                         !.targetId = NoId]

\* PastedItem that puts every copy where the first one goes
PastedItem_Stacked(k, dx, dy) ==
    [clipboard[k] EXCEPT !.id = PastedId(k), !.x = clipboard[1].x + dx,
                         !.y = clipboard[1].y + dy, !.zIndex = topZ + k,
                         !.parentId = NoId, !.targetId = NoId]

\* PastedItem that leaves an editor pointing at the image it was copied with
PastedItem_KeepTarget(k, dx, dy) ==
    [clipboard[k] EXCEPT !.id = PastedId(k), !.x = @ + dx, !.y = @ + dy,
                         !.zIndex = topZ + k, !.parentId = NoId]

\* PastedItem that stays derived from the parent of the item it copies
PastedItem_KeepParent(k, dx, dy) ==
    [clipboard[k] EXCEPT !.id = PastedId(k), !.x = @ + dx, !.y = @ + dy,
                         !.zIndex = topZ + k, !.targetId = NoId]

\* A copy of the k-th clipboard item with its own id
PastedItem(k, dx, dy) ==
    LET item == clipboard[k]
        copied == {j \in DOMAIN clipboard : clipboard[j].id = item.targetId}
    IN  [item EXCEPT
            !.id = PastedId(k),
            !.x = item.x + dx,
            !.y = item.y + dy,
            !.zIndex = topZ + k,
            !.parentId = NoId,
            !.targetId = IF item.type = "editor" /\ item.targetId # NoId /\ copied # {}
                         THEN PastedId(CHOOSE j \in copied : TRUE)
                         ELSE NoId]

\* PasteSelection that adds the pasted items to the selection
PasteSelection_Added(newItems) ==
    selectedIds \cup {newItems[k].id : k \in DOMAIN newItems}

\* new Set(newItems.map(i => i.id)) (line 201)
PasteSelection(newItems) == {newItems[k].id : k \in DOMAIN newItems}

\* pasteItems (129-204), called by handleKeyDown on Ctrl+V (222-226)
pasteItems ==
    /\ clipboard # <<>>
    /\ LET xs == [k \in DOMAIN clipboard |-> clipboard[k].x]
           ys == [k \in DOMAIN clipboard |-> clipboard[k].y]
           rights == [k \in DOMAIN clipboard |-> clipboard[k].x + clipboard[k].width]
           bottoms == [k \in DOMAIN clipboard |-> clipboard[k].y + clipboard[k].height]
           centerX == (SeqMin(xs) + SeqMax(rights)) \div 2
           centerY == (SeqMin(ys) + SeqMax(bottoms)) \div 2
           atMouse == mousePos.x > 0 /\ mousePos.y > 0
           targetX == IF atMouse THEN RFloor(WorldOf(mousePos.x, view.x, view.scale))
                      ELSE centerX + 20
           targetY == IF atMouse THEN RFloor(WorldOf(mousePos.y, view.y, view.scale))
                      ELSE centerY + 20
           newItems == [k \in DOMAIN clipboard |->
                            PastedItem(k, targetX - centerX, targetY - centerY)]
       IN  /\ items' = items \o newItems
           /\ selectedIds' = PasteSelection(newItems)
           /\ activeItemId' = IF Len(newItems) = 1 THEN newItems[1].id
                              ELSE activeItemId
    /\ topZ' = topZ + Len(clipboard)
    /\ nextId' = nextId + Len(clipboard)
    /\ Quiet /\ NoDragChange /\ NoInputChange /\ NoAsyncChange

\* The keys handleKeyDown tests: Ctrl/Cmd+C, Ctrl/Cmd+V, Delete or Backspace
Keys == {"c", "v", "Delete"}

\* handleKeyDown (208-236); inText is e.target.matches('input, textarea'),
\* which the handler reads on the Delete branch only (line 230).
handleKeyDown(key, inText) ==
    CASE key = "c" -> handleKeyDownCopy
      [] key = "v" -> pasteItems
      [] key = "Delete" ->
            IF inText
            THEN /\ selectedIds # {}
                 /\ Quiet /\ NoItemChange /\ NoDragChange /\ NoInputChange
                 /\ NoAsyncChange
            ELSE handleKeyDownDelete

----------------------------------------------------------------------------
(* The connection lines *)

\* renderConnections with a line for every parentId, resolved or not
RECURSIVE renderConnectionsFrom_Dangling(_, _)
renderConnectionsFrom_Dangling(k, drawn) ==
    IF k > Len(items) THEN <<>>
    ELSE IF items[k].parentId # NoId
         THEN <<[parent |-> items[k].parentId, child |-> items[k].id,
                 isActive |-> items[k].id \in selectedIds
                                \/ items[k].parentId \in selectedIds]>>
                \o renderConnectionsFrom_Dangling(k + 1, drawn)
         ELSE renderConnectionsFrom_Dangling(k + 1, drawn)

\* The items.forEach of renderConnections (832-859) from the k-th item on;
\* drawn is drawnConnections, a line is <line key=parent.id-item.id>.
RECURSIVE renderConnectionsFrom(_, _)
renderConnectionsFrom(k, drawn) ==
    IF k > Len(items) THEN <<>>
    ELSE LET item == items[k]
             found == item.parentId # NoId /\ Has(items, item.parentId)
             key == <<item.parentId, item.id>>
         IN  IF found /\ key \notin drawn
             THEN <<[parent |-> Find(items, item.parentId).id,
                     child |-> item.id,
                     isActive |-> item.id \in selectedIds
                                    \/ Find(items, item.parentId).id \in selectedIds]>>
                    \o renderConnectionsFrom(k + 1, drawn \cup {key})
             ELSE renderConnectionsFrom(k + 1, drawn)

renderConnections == renderConnectionsFrom(1, {})

----------------------------------------------------------------------------
(* Jobs: executeGeneration and executeEdit *)

\* The closure of one call: `item` and `topZ` are the values of the render
\* in which it was started.  pc is the await it is suspended at: "upload"
\* (convertSrcToFile and uploadImage), "queue" (queuePrompt), "poll" (the
\* next checkStatus: getHistory, then getLogs) or "imgload" (imgObj.onload).
\* polls counts the checkStatus runs that re-armed the timer.  A call that
\* has returned is dropped from jobs.
Job(kind, item, z, pc) ==
    [kind |-> kind, itemId |-> item.id, item |-> item, topZ |-> z, pc |-> pc,
     polls |-> 0]

JobAt(j, pc) == [jobs EXCEPT ![j].pc = pc]
JobPolled(j) == [jobs EXCEPT ![j].polls = jobs[j].polls + 1]
JobEnd(j) ==
    [k \in 1 .. Len(jobs) - 1 |-> IF k < j THEN jobs[k] ELSE jobs[k + 1]]

NoUserChange ==
    /\ NoDragChange /\ NoInputChange
    /\ UNCHANGED <<view, serverUrl, uploads>>

\* GenFailed with the flag left as it is
GenFailed_KeepFlag == [progress |-> 0]

\* GeneratorSucceeded without the switch to the result view
GeneratorSucceeded_NoMode ==
    [isGenerating |-> FALSE, progress |-> 100, resultImage |-> 1]

\* GeneratorSucceeded that switches to the result view without an image
GeneratorSucceeded_NoImage ==
    [isGenerating |-> FALSE, progress |-> 100, mode |-> "result"]

GenStarted == [isGenerating |-> TRUE, progress |-> 0]
GenFailed == [isGenerating |-> FALSE, progress |-> 0]
GenUploading == [progress |-> 10]
GeneratorSucceeded ==
    [isGenerating |-> FALSE, progress |-> 100, resultImage |-> 1, mode |-> "result"]
EditorSucceeded == [isGenerating |-> FALSE, progress |-> 100]

\* The Generate button is shown for a generator in input mode that is not
\* generating (line 1094), Apply Edit for an editor that is not generating
\* and has a targetId (lines 1157-1168).
CanGenerate(item) ==
    \/ item.type = "generator" /\ item.mode = "input" /\ ~item.isGenerating
    \/ item.type = "editor" /\ ~item.isGenerating /\ item.targetId # NoId

\* GenUrlRejected with the flag raised before the endpoint is looked at
GenUrlRejected_Flagged(itemId) ==
    /\ alertMsg' = UrlAlert
    /\ items' = updateItemData(items, itemId, [isGenerating |-> TRUE, progress |-> 0])
    /\ UNCHANGED <<jobs, jobCount>>

\* if (!url) { alert(...); return; } of executeGeneration (714-717)
GenUrlRejected(itemId) ==
    /\ alertMsg' = UrlAlert
    /\ UNCHANGED <<items, jobs, jobCount>>

\* executeGeneration up to its first await
executeGeneration(itemId) ==
    /\ Has(items, itemId)
    /\ CanGenerate(Find(items, itemId))
    /\ LET item == Find(items, itemId)
           url == ensureHttps(serverUrl)
           flagged == updateItemData(items, itemId, GenStarted)
       IN
        IF url = ""
        THEN GenUrlRejected(itemId)
        ELSE IF item.type = "generator"
        THEN /\ jobCount' = jobCount + 1
             /\ items' = flagged
             /\ jobs' = Append(jobs, Job("gen", item, topZ, "queue"))
             /\ alertMsg' = NoAlert
        ELSE IF item.targetId = NoId \/ ~Has(items, item.targetId)
        THEN /\ items' = updateItemData(flagged, itemId, GenFailed)
             /\ alertMsg' = IF item.targetId = NoId THEN NoTargetAlert
                            ELSE TargetMissingAlert
             /\ UNCHANGED <<jobs, jobCount>>
        ELSE /\ jobCount' = jobCount + 1
             /\ items' = updateItemData(flagged, itemId, GenUploading)
             /\ jobs' = Append(jobs, Job("gen", item, topZ, "upload"))
             /\ alertMsg' = NoAlert
    /\ NoUserChange
    /\ UNCHANGED <<activeItemId, selectedIds, topZ, nextId>>

\* The outer catch of executeGeneration (lines 821-824)
GenCatch(j, msg) ==
    /\ alertMsg' = msg
    /\ items' = updateItemData(items, jobs[j].itemId, GenFailed)
    /\ jobs' = JobEnd(j)

\* await convertSrcToFile / uploadImage of an editor's target (743-744)
GenUpload(j, ok) ==
    /\ j \in DOMAIN jobs
    /\ jobs[j].kind = "gen" /\ jobs[j].pc = "upload"
    /\ IF ok
       THEN /\ jobs' = JobAt(j, "queue")
            /\ alertMsg' = NoAlert
            /\ UNCHANGED items
       ELSE GenCatch(j, NetworkAlert)
    /\ NoUserChange
    /\ UNCHANGED <<activeItemId, selectedIds, topZ, nextId, jobCount>>

\* await queuePrompt (733, 747), then the first checkStatus() is called
GenQueue(j, ok) ==
    /\ j \in DOMAIN jobs
    /\ jobs[j].kind = "gen" /\ jobs[j].pc = "queue"
    /\ IF ok
       THEN /\ jobs' = JobAt(j, "poll")
            /\ alertMsg' = NoAlert
            /\ UNCHANGED items
       ELSE GenCatch(j, NetworkAlert)
    /\ NoUserChange
    /\ UNCHANGED <<activeItemId, selectedIds, topZ, nextId, jobCount>>

\* newProg of lines 808-809 and 685-686
NewProg(currentProg, parsed) ==
    IF parsed > 0 THEN parsed ELSE Min(currentProg + 2, 95)

\* One run of executeGeneration's checkStatus (753-817): st is what
\* getHistory answered, parsed what the log parser yielded.
GenPoll(j, st, parsed) ==
    /\ j \in DOMAIN jobs
    /\ jobs[j].kind = "gen" /\ jobs[j].pc = "poll"
    /\ st \in {"pending", "success_noimg"} => jobs[j].polls < MaxPolls
    /\ LET job == jobs[j] IN
        CASE st = "success" ->
                IF job.item.type = "generator"
                THEN /\ items' = updateItemData(items, job.itemId, GeneratorSucceeded)
                     /\ jobs' = JobEnd(j)
                ELSE /\ items' = items
                     /\ jobs' = JobAt(j, "imgload")
          [] st \in {"error", "throw"} ->
                /\ items' = updateItemData(items, job.itemId, GenFailed)
                /\ jobs' = JobEnd(j)
          [] OTHER ->
                /\ items' = updateItemData(items, job.itemId,
                                [progress |-> NewProg(job.item.progress, parsed)])
                /\ jobs' = JobPolled(j)
    /\ alertMsg' = NoAlert
    /\ NoUserChange
    /\ UNCHANGED <<activeItemId, selectedIds, topZ, nextId, jobCount>>

\* The Image an editor job spawns (780-790)
GenSpawn(job, id, img) ==
    ImageItem(id, job.item.x + job.item.width + 50, job.item.y,
              img.w \div 2, img.h \div 2, job.topZ + 2, job.item.id)

\* imgObj.onload of an editor job (779-795)
GenImgLoad(j, img) ==
    /\ j \in DOMAIN jobs
    /\ jobs[j].kind = "gen" /\ jobs[j].pc = "imgload"
    /\ nextId <= MaxItems
    /\ LET job == jobs[j]
           newItem == GenSpawn(job, nextId, img)
       IN
        /\ topZ' = topZ + 2
        /\ items' = updateItemData(Append(items, newItem), job.itemId, EditorSucceeded)
        /\ selectedIds' = {newItem.id}
    /\ jobs' = JobEnd(j)
    /\ nextId' = nextId + 1
    /\ alertMsg' = NoAlert
    /\ NoUserChange
    /\ UNCHANGED <<activeItemId, jobCount>>

\* EditSucceeded with the prompt left in the overlay
EditSucceeded_KeepPrompt == [isEditing |-> FALSE, editProgress |-> 100]

EditStarted == [isEditing |-> TRUE, editProgress |-> 0]
EditFailed == [isEditing |-> FALSE]
EditUploaded == [editProgress |-> 20]
EditSucceeded == [isEditing |-> FALSE, editProgress |-> 100, editPrompt |-> 0]

\* if (item.type === 'image') updateImageItem(...) else updateItemData(...)
\* with the item the call captured
updateEdited(its, item, partialData) ==
    IF item.type = "image"
    THEN updateImageItem(its, item.id, partialData)
    ELSE updateItemData(its, item.id, partialData)

\* The edit overlay is rendered on an image and on a generator's result;
\* its button is disabled while editing or without a prompt, its Enter key
\* is not (line 884).
CanEdit(item) ==
    \/ item.type = "image"
    \/ item.type = "generator" /\ item.mode = "result"

\* if (!url) { alert(...); return; } of executeEdit (602-605)
EditUrlRejected(itemId) ==
    /\ alertMsg' = UrlAlert
    /\ UNCHANGED <<items, jobs, jobCount>>

\* executeEdit up to its first await
executeEdit(itemId) ==
    /\ Has(items, itemId)
    /\ CanEdit(Find(items, itemId))
    /\ LET item == Find(items, itemId)
           url == ensureHttps(serverUrl)
           flagged == updateEdited(items, item, EditStarted)
           src == IF item.type = "image" THEN item.src ELSE item.resultImage
       IN
        IF url = ""
        THEN EditUrlRejected(itemId)
        ELSE IF src = 0
        THEN /\ items' = updateEdited(flagged, item, EditFailed)
             /\ alertMsg' = NoSourceAlert
             /\ UNCHANGED <<jobs, jobCount>>
        ELSE /\ jobCount' = jobCount + 1
             /\ items' = flagged
             /\ jobs' = Append(jobs, Job("edit", item, topZ, "upload"))
             /\ alertMsg' = NoAlert
    /\ NoUserChange
    /\ UNCHANGED <<activeItemId, selectedIds, topZ, nextId>>

\* The outer catch of executeEdit (lines 702-706)
EditCatch(j, msg) ==
    /\ alertMsg' = msg
    /\ items' = updateEdited(items, jobs[j].item, EditFailed)
    /\ jobs' = JobEnd(j)

\* await convertSrcToFile / uploadImage (626-630)
EditUpload(j, ok) ==
    /\ j \in DOMAIN jobs
    /\ jobs[j].kind = "edit" /\ jobs[j].pc = "upload"
    /\ IF ok
       THEN /\ items' = updateEdited(items, jobs[j].item, EditUploaded)
            /\ jobs' = JobAt(j, "queue")
            /\ alertMsg' = NoAlert
       ELSE EditCatch(j, NetworkAlert)
    /\ NoUserChange
    /\ UNCHANGED <<activeItemId, selectedIds, topZ, nextId, jobCount>>

\* await queuePrompt (636), then the first checkStatus() is called
EditQueue(j, ok) ==
    /\ j \in DOMAIN jobs
    /\ jobs[j].kind = "edit" /\ jobs[j].pc = "queue"
    /\ IF ok
       THEN /\ jobs' = JobAt(j, "poll")
            /\ alertMsg' = NoAlert
            /\ UNCHANGED items
       ELSE EditCatch(j, NetworkAlert)
    /\ NoUserChange
    /\ UNCHANGED <<activeItemId, selectedIds, topZ, nextId, jobCount>>

\* The Image an edit session spawns (652-662)
EditSpawn(job, id) ==
    ImageItem(id, job.item.x + job.item.width + 40, job.item.y,
              job.item.width, job.item.height, job.topZ + 2, job.item.id)

\* currentProg of line 685: (editProgress || 20) of the captured item
EditCurrentProg(item) == IF item.editProgress # 0 THEN item.editProgress ELSE 20

\* One run of executeEdit's checkStatus (639-699)
EditPoll(j, st, parsed) ==
    /\ j \in DOMAIN jobs
    /\ jobs[j].kind = "edit" /\ jobs[j].pc = "poll"
    /\ st \in {"pending", "success_noimg"} => jobs[j].polls < MaxPolls
    /\ st = "success" => nextId <= MaxItems
    /\ LET job == jobs[j] IN
        CASE st = "success" ->
                LET newItem == EditSpawn(job, nextId) IN
                /\ topZ' = topZ + 2
                /\ items' = updateEdited(Append(items, newItem), job.item, EditSucceeded)
                /\ selectedIds' = {newItem.id}
                /\ nextId' = nextId + 1
                /\ jobs' = JobEnd(j)
          [] st \in {"error", "throw"} ->
                /\ items' = updateEdited(items, job.item, EditFailed)
                /\ jobs' = JobEnd(j)
                /\ UNCHANGED <<topZ, selectedIds, nextId>>
          [] OTHER ->
                /\ items' = updateEdited(items, job.item,
                                [editProgress |-> NewProg(EditCurrentProg(job.item), parsed)])
                /\ jobs' = JobPolled(j)
                /\ UNCHANGED <<topZ, selectedIds, nextId>>
    /\ alertMsg' = NoAlert
    /\ NoUserChange
    /\ UNCHANGED <<activeItemId, jobCount>>

----------------------------------------------------------------------------
(* Specifications *)

Point0 == [x |-> 0, y |-> 0]

\* Every step of every job
JobStep ==
    \/ \E j \in DOMAIN jobs, ok \in BOOLEAN : GenUpload(j, ok)
    \/ \E j \in DOMAIN jobs, ok \in BOOLEAN : GenQueue(j, ok)
    \/ \E j \in DOMAIN jobs, st \in HistoryStatus, parsed \in ParsedProgress :
            GenPoll(j, st, parsed)
    \/ \E j \in DOMAIN jobs, img \in ImgSizes : GenImgLoad(j, img)
    \/ \E j \in DOMAIN jobs, ok \in BOOLEAN : EditUpload(j, ok)
    \/ \E j \in DOMAIN jobs, ok \in BOOLEAN : EditQueue(j, ok)
    \/ \E j \in DOMAIN jobs, st \in HistoryStatus, parsed \in ParsedProgress :
            EditPoll(j, st, parsed)

\* The job lifecycle: items are added, edited and deleted, the server URL
\* is changed, jobs are started and run, in every order.
NextJobs ==
    \/ addGeneratorNode
    \/ addEditNode
    \/ handleUpload
    \/ \E u \in DOMAIN uploads, img \in ImgSizes : handleUploadLoaded(u, img)
    \/ \E id \in Ids : removeItem(id)
    \/ handleKeyDownDelete
    \/ \E id \in Ids : editPromptChange(id, 1)
    \/ \E u \in ServerUrls : setServerUrl(u)
    \/ \E id \in Ids : editPromptChange(id, 1)
    \/ \E id \in Ids : backToPrompt(id)
    \/ \E id \in Ids, target \in Ids \cup {NoId} : setTarget(id, target)
    \/ \E id \in Ids : executeGeneration(id) /\ jobCount' <= MaxJobs
    \/ \E id \in Ids : executeEdit(id) /\ jobCount' <= MaxJobs
    \/ JobStep

SpecJobs == Init /\ [][NextJobs]_vars

\* The z-order: items are added and pressed while jobs run.
NextZOrder ==
    \/ addGeneratorNode
    \/ addEditNode
    \/ handleUpload
    \/ \E u \in DOMAIN uploads, img \in ImgSizes : handleUploadLoaded(u, img)
    \/ \E id \in Ids, onControl \in BOOLEAN :
            handleItemMouseDown(id, FALSE, onControl, Point0)
    \/ handleMouseUp
    \/ \E id \in Ids : executeGeneration(id) /\ jobCount' <= MaxJobs
    \/ \E id \in Ids : executeEdit(id) /\ jobCount' <= MaxJobs
    \/ JobStep

SpecZOrder == Init /\ [][NextZOrder]_vars

\* Two jobs side by side: items are added while up to MaxJobsInFlight
\* calls run.
NextIsolation ==
    \/ addEditNode
    \/ handleUpload
    \/ \E u \in DOMAIN uploads, img \in ImgSizes : handleUploadLoaded(u, img)
    \/ \E id \in Ids : executeGeneration(id) /\ jobCount' <= MaxJobsInFlight
    \/ \E id \in Ids : executeEdit(id) /\ jobCount' <= MaxJobsInFlight
    \/ JobStep

SpecIsolation == Init /\ [][NextIsolation]_vars

\* The viewport: zooming, panning and resetting, with the pointer events of
\* the canvas background.
NextView ==
    \/ \E deltaY \in WheelDeltas, p \in Points : handleWheel(deltaY, p)
    \/ zoomOut
    \/ zoomIn
    \/ resetView
    \/ \E down \in BOOLEAN : handleKeySpace(down)
    \/ \E p \in Points, middle \in BOOLEAN : handleMouseDown(p, FALSE, middle)
    \/ \E p \in Points \ {Point0} : handleMouseMove(p, FALSE)
    \/ handleMouseUp

SpecView == Init /\ [][NextView]_vars

\* The clipboard: images are uploaded, pressed, dragged, edited, copied,
\* pasted and deleted; no job is started here.
NextClipboard ==
    \/ handleUpload
    \/ \E u \in DOMAIN uploads, img \in ImgSizes : handleUploadLoaded(u, img)
    \/ \E id \in Ids : handleItemMouseDown(id, FALSE, FALSE, mousePos)
    \/ \E p \in Points \ {Point0} : handleMouseMove(p, FALSE)
    \/ handleKeyDownCopy
    \/ pasteItems /\ nextId' <= MaxItems + 1
    \/ handleKeyDownDelete
    \/ \E id \in Ids : editPromptChange(id, 1)

SpecClipboard == Init /\ [][NextClipboard]_vars

\* Pasting a batch: an image and an editor are made, selected together by
\* a shift press, and the copy, paste and delete keys are typed inside and
\* outside a text field.
NextPaste ==
    \/ handleUpload /\ nextId + Len(uploads') <= MaxPasted - 1
    \/ \E u \in DOMAIN uploads, img \in ImgSizes : handleUploadLoaded(u, img)
    \/ addEditNode /\ nextId' + Len(uploads) <= MaxPasted - 1
    \/ \E id \in Ids, shiftKey \in BOOLEAN :
            handleItemMouseDown(id, shiftKey, FALSE, mousePos)
    \/ \E key \in Keys, inText \in BOOLEAN :
            handleKeyDown(key, inText) /\ nextId' <= MaxPasted + 1

SpecPaste == Init /\ [][NextPaste]_vars

\* Presses and deletions: items of the three variants are made, pressed with
\* and without shift, and removed by the close button or the Delete key.
NextPress ==
    \/ addGeneratorNode
    \/ addEditNode
    \/ handleUpload
    \/ \E u \in DOMAIN uploads, img \in ImgSizes : handleUploadLoaded(u, img)
    \/ \E id \in Ids, shiftKey \in BOOLEAN, onControl \in BOOLEAN :
            handleItemMouseDown(id, shiftKey, onControl, mousePos)
    \/ \E id \in Ids : editorMouseDown(id)
    \/ handleMouseUp
    \/ \E id \in Ids : removeItem(id)
    \/ \E inText \in BOOLEAN : handleKeyDown("Delete", inText)

SpecPress == Init /\ [][NextPress]_vars

\* The corners of the box that covers an uploaded image at the initial view,
\* and the ends of a vertical line through it
SelectPoints == {[x |-> 300, y |-> 250], [x |-> 500, y |-> 350],
                 [x |-> 400, y |-> 250], [x |-> 400, y |-> 350]}

\* The selection box: images are uploaded, the background is pressed with
\* and without shift, and the pointer is moved and released.
NextSelect ==
    \/ handleUpload
    \/ \E u \in DOMAIN uploads, img \in ImgSizes : handleUploadLoaded(u, img)
    \/ \E p \in SelectPoints, shiftKey \in BOOLEAN :
            handleMouseDown(p, shiftKey, FALSE)
    \/ \E p \in SelectPoints, shiftKey \in BOOLEAN : handleMouseMove(p, shiftKey)
    \/ handleMouseUp

SpecSelect == Init /\ [][NextSelect]_vars

\* Presses on the background: generators are made and pressed, Space is held
\* and released, and the background is pressed with each button and released.
NextBackground ==
    \/ addGeneratorNode
    \/ \E id \in Ids, shiftKey \in BOOLEAN :
            handleItemMouseDown(id, shiftKey, FALSE, mousePos)
    \/ \E down \in BOOLEAN : handleKeySpace(down)
    \/ \E p \in Points, shiftKey \in BOOLEAN, middle \in BOOLEAN :
            handleMouseDown(p, shiftKey, middle)
    \/ handleMouseUp

SpecBackground == Init /\ [][NextBackground]_vars

----------------------------------------------------------------------------
(* Properties of the job lifecycle *)

Deleted(j) == ~Has(items, jobs[j].itemId)

\* A run of checkStatus of job j, with the onload callback it may leave
PollStep(j) ==
    \/ \E st \in HistoryStatus, parsed \in ParsedProgress : GenPoll(j, st, parsed)
    \/ \E st \in HistoryStatus, parsed \in ParsedProgress : EditPoll(j, st, parsed)
    \/ \E img \in ImgSizes : GenImgLoad(j, img)

\* The step in which a successful editor job or edit session inserts its Image
SpawnStep(j) ==
    \/ \E img \in ImgSizes : GenImgLoad(j, img)
    \/ \E parsed \in ParsedProgress : EditPoll(j, "success", parsed)

\* C1: once the item of an in-flight job has been deleted, every later poll
\* step of that job leaves the item store and the selection unchanged.
C1_DeletedPollIsNoOp ==
    [][\A j \in DOMAIN jobs :
          (Deleted(j) /\ PollStep(j)) =>
              UNCHANGED <<items, selectedIds, activeItemId>>]_vars

\* C2: the first poll step that runs after the item of a job was deleted
\* does not re-arm the poll timer, whatever the backend answered.
C2_DeletedPollStops ==
    [][\A j \in DOMAIN jobs :
          (Deleted(j) /\ PollStep(j)) => jobs' # JobPolled(j)]_vars

\* The item with the given id, as a set (empty once it is deleted)
ItemsWithId(its, id) == {its[i] : i \in {k \in DOMAIN its : its[k].id = id}}

C4_SpawnIsOnTop ==
    [][\A j \in DOMAIN jobs :
          SpawnStep(j) =>
              \A i \in DOMAIN items :
                  items'[Len(items')].zIndex > items[i].zIndex]_vars

\* C5: when the job of a generator succeeds with an output image, the
\* generator gets resultImage, mode 'result', isGenerating false and
\* progress 100; nothing else of it, no other item and not the number of
\* items changes.
C5_GeneratorTransformsInPlace ==
    [][\A j \in DOMAIN jobs, parsed \in ParsedProgress :
          (jobs[j].item.type = "generator" /\ GenPoll(j, "success", parsed)) =>
              /\ DOMAIN items' = DOMAIN items
              /\ \A i \in DOMAIN items :
                    IF items[i].id = jobs[j].itemId
                    THEN /\ items'[i].resultImage = 1
                         /\ items'[i].mode = "result"
                         /\ ~items'[i].isGenerating
                         /\ items'[i].progress = 100
                         /\ items'[i] = [items[i] EXCEPT
                                !.resultImage = 1, !.mode = "result",
                                !.isGenerating = FALSE, !.progress = 100]
                    ELSE items'[i] = items[i]]_vars

\* A generator whose job has succeeded, next to another item
C5_Witness ==
    \E i, k \in DOMAIN items :
        /\ i # k
        /\ items[i].type = "generator" /\ items[i].mode = "result"
        /\ items[i].resultImage = 1 /\ items[i].progress = 100
        /\ ~items[i].isGenerating

\* The step in which job j ends in Failed: a rejected upload or submit, a
\* poll that throws or is answered with status 'error'
FailStep(j) ==
    \/ GenUpload(j, FALSE) \/ GenQueue(j, FALSE)
    \/ EditUpload(j, FALSE) \/ EditQueue(j, FALSE)
    \/ \E st \in {"error", "throw"}, parsed \in ParsedProgress :
            GenPoll(j, st, parsed) \/ EditPoll(j, st, parsed)

\* C6: when a job ends in Failed, its item keeps its place in the store with
\* the generating / editing flag false and the progress value (progress,
\* or editProgress for an edit session) 0; no item is added or removed and
\* no job is started.
C6_FailureResets ==
    [][\A j \in DOMAIN jobs :
          FailStep(j) =>
              /\ Len(items') = Len(items)
              /\ \A i \in DOMAIN items : items'[i].id = items[i].id
              /\ Len(jobs') < Len(jobs)
              /\ \A it \in ItemsWithId(items', jobs[j].itemId) :
                    IF jobs[j].kind = "gen"
                    THEN ~it.isGenerating /\ it.progress = 0
                    ELSE ~it.isEditing /\ it.editProgress = 0]_vars

\* C7: a non-terminal poll for which the log parser yields no progress sets
\* the item's progress to min(the progress it shows + 2, 95).
C7_FallbackProgressAdvances ==
    [][\A j \in DOMAIN jobs, i \in DOMAIN items :
          items[i].id = jobs[j].itemId =>
              /\ GenPoll(j, "pending", 0) =>
                    items'[i].progress = Min(items[i].progress + 2, 95)
              /\ EditPoll(j, "pending", 0) =>
                    items'[i].editProgress = Min(items[i].editProgress + 2, 95)]_vars

\* C8: a poll that is answered with a terminal status (success, with or
\* without an image in the outputs, or error) does not re-arm the timer.
C8_TerminalStatusEndsPolling ==
    [][\A j \in DOMAIN jobs, parsed \in ParsedProgress,
          st \in {"success", "success_noimg", "error"} :
          (GenPoll(j, st, parsed) \/ EditPoll(j, st, parsed)) =>
              jobs' # JobPolled(j)]_vars

\* C9: with an unset or invalid server endpoint, executeGeneration and
\* executeEdit alert the user and change nothing: no job, no upload, no
\* item field, not the selection, not the z-order counter.
C9_BadEndpointBlocks ==
    [][\A id \in Ids :
          (ensureHttps(serverUrl) = "" /\ (executeGeneration(id) \/ executeEdit(id))) =>
              /\ alertMsg' = UrlAlert
              /\ UNCHANGED <<items, selectedIds, activeItemId, topZ, jobs,
                             jobCount, uploads, nextId>>]_vars

\* The alert of a call made with no endpoint, with an item in the store
C9_Witness == alertMsg = UrlAlert /\ items # <<>> /\ ensureHttps(serverUrl) = ""

\* An editor whose targetId is null or names no item of the store
NoTarget(item) ==
    /\ item.type = "editor"
    /\ item.targetId = NoId \/ ~Has(items, item.targetId)

----------------------------------------------------------------------------
(* Properties of concurrent jobs, failures and the selection *)

\* Any step of job j: an await that resolves or rejects, a run of
\* checkStatus, the onload callback
StepOfJob(j) ==
    \/ \E ok \in BOOLEAN : GenUpload(j, ok) \/ GenQueue(j, ok)
    \/ \E ok \in BOOLEAN : EditUpload(j, ok) \/ EditQueue(j, ok)
    \/ PollStep(j)

C12_FailureIsSurfaced ==
    [][\A j \in DOMAIN jobs :
          (FailStep(j) /\ ~Deleted(j)) => alertMsg' # NoAlert]_vars

\* C13: activeItemId is null or a member of selectedIds.
C13_ActiveIsSelected == activeItemId = NoId \/ activeItemId \in selectedIds

----------------------------------------------------------------------------
(* Properties of the viewport *)

\* C15: the viewport scale lies in [0.1, 5].
C15_ScaleInRange == ~RLess(view.scale, MinScale) /\ ~RLess(MaxScale, view.scale)

\* The scale has been clamped at its upper limit away from the origin
C15_Witness == view.scale = MaxScale /\ view.x # RInt(0)

\* C16: a wheel zoom at the screen point p leaves the world point under p
\* where it was, clamped or not.
C16_WheelKeepsAnchor ==
    [][\A deltaY \in WheelDeltas, p \in Points :
          handleWheel(deltaY, p) =>
              /\ WorldOf(p.x, view'.x, view'.scale) = WorldOf(p.x, view.x, view.scale)
              /\ WorldOf(p.y, view'.y, view'.scale) = WorldOf(p.y, view.y, view.scale)]_vars

\* A wheel zoom was clamped at 0.1 with the pointer away from the origin
C16_Witness == view.scale = MinScale /\ view.x # RInt(0) /\ view.y # RInt(0)

\* C17 as stated: only the wheel zoom changes the scale.
C17_OnlyWheelChangesScale ==
    [][view'.scale # view.scale =>
          \E deltaY \in WheelDeltas, p \in Points : handleWheel(deltaY, p)]_vars

\* C17 as amended: the scale changes only by the wheel zoom, the zoom-in
\* and zoom-out buttons and the reset button.
C17_OnlyZoomsChangeScale ==
    [][view'.scale # view.scale =>
          \/ \E deltaY \in WheelDeltas, p \in Points : handleWheel(deltaY, p)
          \/ zoomIn \/ zoomOut \/ resetView]_vars

\* The zoom-in button has changed the scale and left the pan
C17_Witness == view.scale = ZoomStep /\ view.x = RInt(0) /\ view.y = RInt(0)

----------------------------------------------------------------------------
(* Properties of ids, the z-order and the clipboard *)

PressOn(id) ==
    \E shiftKey, onControl \in BOOLEAN, p \in Points :
        handleItemMouseDown(id, shiftKey, onControl, p)

\* C18: a pointer-down on an item leaves it strictly above every other item
\* of the store, in particular above the item that was pressed before it.
C18_LaterPressIsHigher ==
    [][\A id \in Ids :
          PressOn(id) =>
              \A k \in DOMAIN items' :
                  items'[k].id # id => Find(items', id).zIndex > items'[k].zIndex]_vars

\* Two items were made, then the second was pressed, then the first
C18_Witness ==
    /\ Len(items) = 2 /\ nextId = 3 /\ jobCount = 0
    /\ topZ = InitialTopZ + 4
    /\ items[2].zIndex = topZ - 1
    /\ items[1].zIndex = topZ

\* C19: topZ never decreases, and no item's zIndex exceeds topZ.
C19_TopZBoundsItems ==
    /\ [][topZ' >= topZ]_vars
    /\ [](\A i \in DOMAIN items : items[i].zIndex <= topZ)

\* A pasted copy is on top, above an item whose zIndex came from an upload
C19_Witness ==
    \E i, k \in DOMAIN items :
        /\ items[k].x = items[i].x + 20 /\ items[k].y = items[i].y + 20
        /\ items[k].zIndex = topZ
        /\ items[i].zIndex < topZ - 1

\* What paste keeps of an item: everything but its id, place, zIndex and links
Pasteable(item) ==
    [item EXCEPT !.id = NoId, !.x = 0, !.y = 0, !.zIndex = 0,
                 !.parentId = NoId, !.targetId = NoId]

----------------------------------------------------------------------------
(* Properties of a pasted batch and of the keyboard shortcuts *)

\* C21: a copy puts one entry per selected item on the clipboard, and a paste
\* of N entries appends exactly N items to the store: their ids differ from
\* each other and from every id of the store, and the offset between any two
\* of them is the offset between the two entries they copy (one translation
\* for the whole batch).
C21_PasteRoundTrip ==
    [][/\ handleKeyDownCopy =>
            /\ Len(clipboard') = Cardinality(selectedIds)
            /\ ItemIds(clipboard') = selectedIds
       /\ pasteItems =>
            LET n == Len(items)
                pasted(k) == items'[n + k]
            IN  /\ Len(items') = n + Len(clipboard)
                /\ SubSeq(items', 1, n) = items
                /\ \A k \in DOMAIN clipboard :
                        /\ pasted(k).id \notin ItemIds(items)
                        /\ \A j \in DOMAIN clipboard :
                            /\ k # j => pasted(k).id # pasted(j).id
                            /\ pasted(k).x - pasted(j).x
                                    = clipboard[k].x - clipboard[j].x
                            /\ pasted(k).y - pasted(j).y
                                    = clipboard[k].y - clipboard[j].y]_vars

\* A batch of two items at different places has been pasted.
C21_Witness ==
    /\ Len(clipboard) = 2
    /\ clipboard[1].x # clipboard[2].x
    /\ Len(items) = 4
    /\ selectedIds = {items[3].id, items[4].id}
    /\ items[4].x - items[3].x = clipboard[2].x - clipboard[1].x
    /\ items[3].x # clipboard[1].x

\* C22: a pasted editor points at the pasted copy of its target when the
\* target is in the batch, never at the target itself, and at nothing when
\* the target is not in the batch.
C22_PastedTargetIsRemapped ==
    [][pasteItems =>
        LET n == Len(items) IN
        \A k \in DOMAIN clipboard :
            clipboard[k].type = "editor" =>
                LET old == clipboard[k].targetId
                    batch == {j \in DOMAIN clipboard : clipboard[j].id = old}
                IN  IF batch # {}
                    THEN /\ \A j \in batch :
                                items'[n + k].targetId = items'[n + j].id
                         /\ items'[n + k].targetId # old
                    ELSE items'[n + k].targetId = NoId]_vars

\* An editor and its target image were pasted together.
C22_Witness ==
    /\ Len(items) = 4
    /\ Len(clipboard) = 2
    /\ items[2].type = "editor" /\ items[2].targetId = items[1].id
    /\ items[4].type = "editor" /\ items[4].targetId = items[3].id
    /\ items[3].type = "image"

\* C24: with the focus in a text field, the copy, paste and delete keys
\* leave the store, the clipboard and the selection as they are.
C24_TextFieldSuppressesKeys ==
    [][\A key \in Keys :
        handleKeyDown(key, TRUE) => UNCHANGED <<items, clipboard, selectedIds>>]_vars

----------------------------------------------------------------------------
(* Properties of deletion, of the connection lines and of item presses *)

\* The store without the items whose id is in gone, in the same order
Without(its, gone) == SelectSeq(its, LAMBDA i : i.id \notin gone)

\* C23: the close button removes the one item it belongs to and the Delete
\* key the selected items; the removed ids leave selectedIds, and every other
\* item stays in the store exactly as it was, parentId and targetId
\* included, also when they name a removed item.
C23_RemovalDoesNotCascade ==
    [][/\ \A id \in Ids : removeItem(id) =>
            /\ ItemIds(items') = ItemIds(items) \ {id}
            /\ items' = Without(items, {id})
            /\ selectedIds' = selectedIds \ {id}
       /\ handleKeyDown("Delete", FALSE) =>
            /\ ItemIds(items') = ItemIds(items) \ selectedIds
            /\ items' = Without(items, selectedIds)
            /\ selectedIds' \cap selectedIds = {}]_vars

\* The only item left is an editor whose parent and target were removed.
C23_Witness ==
    /\ Len(items) = 1
    /\ items[1].type = "editor"
    /\ items[1].parentId # NoId /\ ~Has(items, items[1].parentId)
    /\ items[1].targetId = items[1].parentId

\* The (parent, child) pairs of the store whose parent is in the store
Derivations ==
    {<<items[i].parentId, items[i].id>> :
        i \in {k \in DOMAIN items : Has(items, items[k].parentId)}}

\* C26: the lines drawn are the pairs (parent, child) of the items whose
\* parentId names an item of the store, each pair once and no other pair; a
\* line is emphasised exactly when its parent or its child is selected.
C26_ConnectionsFollowParents ==
    LET lines == renderConnections IN
    /\ {<<lines[i].parent, lines[i].child>> : i \in DOMAIN lines} = Derivations
    /\ Len(lines) = Cardinality(Derivations)
    /\ \A i \in DOMAIN lines :
            lines[i].isActive <=> (lines[i].parent \in selectedIds
                                    \/ lines[i].child \in selectedIds)

\* Two lines leave one image, one emphasised and one not.
C26_Witness ==
    /\ Len(renderConnections) = 2
    /\ renderConnections[1].isActive # renderConnections[2].isActive

\* id is above every other item of the store
OnTop(its, id) ==
    \A i \in DOMAIN its : its[i].id # id => its[i].zIndex < Find(its, id).zIndex

\* C28: a pointer-down on an item of any variant, with or without shift,
\* leaves that item above every other item.  A press that no handler sees
\* leaves the state as it is, so the item it lands on has to be on top
\* already.
C28_PressBringsToFront ==
    /\ [][\A id \in Ids, shiftKey \in BOOLEAN, onControl \in BOOLEAN :
            handleItemMouseDown(id, shiftKey, onControl, mousePos)
                => OnTop(items', id)]_vars
    /\ [](\A id \in Ids : ENABLED editorMouseDown(id) => OnTop(items, id))

----------------------------------------------------------------------------
(* Properties of the selection box and of background presses *)

\* A pointer move to p that stretches the selection box
RubberBandMove(p, shiftKey) ==
    /\ isDragging /\ dragMode = "selection" /\ selectionBox # NoBox
    /\ handleMouseMove(p, shiftKey)

\* The world-space projection of a selection box
Projection(box) ==
    [left |-> WorldOf(Min(box.startX, box.currentX), view.x, view.scale),
     right |-> WorldOf(Max(box.startX, box.currentX), view.x, view.scale),
     top |-> WorldOf(Min(box.startY, box.currentY), view.y, view.scale),
     bottom |-> WorldOf(Max(box.startY, box.currentY), view.y, view.scale)]

\* C25: a selection box whose projection equals an item's bounds selects
\* the item, and a box of zero width or zero height selects no item, except
\* a zero-size item that lies exactly at the box.
C25_BoxHitTest ==
    [][\A p \in SelectPoints :
        RubberBandMove(p, FALSE) =>
            LET box == Projection(selectionBox') IN
            \A i \in DOMAIN items :
                LET item == items[i]
                    left == RInt(item.x)
                    right == RInt(item.x + item.width)
                    top == RInt(item.y)
                    bottom == RInt(item.y + item.height)
                IN  /\ (box.left = left /\ box.right = right
                            /\ box.top = top /\ box.bottom = bottom)
                        => item.id \in selectedIds'
                    /\ ((box.left = box.right \/ box.top = box.bottom)
                            /\ ~(item.width = 0 /\ item.height = 0
                                    /\ box.left = left /\ box.top = top))
                        => item.id \notin selectedIds']_vars

\* C27: every pointer move of a selection drag makes selectedIds the items
\* the box meets, together with the selection the drag started from when
\* shift is held; an item the box met earlier in the drag and no longer
\* meets is then not selected.  A step is judged by a shift state that
\* produces it.
C27_BoxSelectionIsRecomputed ==
    [][\A p \in SelectPoints :
        (\E held \in BOOLEAN : RubberBandMove(p, held)) =>
            \E shiftKey \in BOOLEAN :
                /\ RubberBandMove(p, shiftKey)
                /\ selectedIds' = BoxHits(selectionBox, p)
                        \cup (IF shiftKey THEN preDragSelection ELSE {})]_vars

\* C30: a background press with Space held or with the middle button starts
\* a pan and leaves the selection; any other background press starts a
\* selection box and, without shift, empties the selection and clears the
\* active item at once; with shift the selection stays.
C30_BackgroundPress ==
    [][\A p \in Points, shiftKey \in BOOLEAN, middle \in BOOLEAN :
        handleMouseDown(p, shiftKey, middle) =>
            /\ isDragging'
            /\ IF isSpacePressed \/ middle
               THEN /\ dragMode' = "canvas"
                    /\ UNCHANGED <<selectedIds, activeItemId>>
               ELSE /\ dragMode' = "selection"
                    /\ selectionBox' # NoBox
                    /\ IF shiftKey
                       THEN UNCHANGED selectedIds
                       ELSE selectedIds' = {} /\ activeItemId' = NoId]_vars

\* A pan was started by a press while two items were selected.
C30_Witness ==
    /\ isDragging /\ dragMode = "canvas"
    /\ selectionBox = NoBox
    /\ Cardinality(selectedIds) = 2
    /\ activeItemId \in selectedIds

----------------------------------------------------------------------------
(* Copy and paste while jobs run *)

\* Generators are added, generate, show their result, are edited in place,
\* go back to the prompt, and are copied and pasted at any point of that.
NextCopies ==
    \/ addGeneratorNode /\ nextId' <= MaxItems
    \/ \E id \in Ids : backToPrompt(id)
    \/ \E id \in Ids : executeGeneration(id) /\ jobCount' <= MaxJobsInFlight
    \/ \E id \in Ids : executeEdit(id) /\ jobCount' <= MaxJobsInFlight
    \/ \E j \in DOMAIN jobs, ok \in BOOLEAN : GenQueue(j, ok)
    \/ \E j \in DOMAIN jobs, st \in HistoryStatus, parsed \in ParsedProgress :
            GenPoll(j, st, parsed)
    \/ \E j \in DOMAIN jobs, ok \in BOOLEAN : EditUpload(j, ok)
    \/ \E j \in DOMAIN jobs, ok \in BOOLEAN : EditQueue(j, ok)
    \/ \E j \in DOMAIN jobs, st \in HistoryStatus, parsed \in ParsedProgress :
            EditPoll(j, st, parsed)
    \/ \E key \in {"c", "v"} : handleKeyDown(key, FALSE) /\ nextId' <= MaxItems + 1

SpecCopies == Init /\ [][NextCopies]_vars

----------------------------------------------------------------------------
(* Dragging items *)

\* Images are uploaded, pressed and dragged at two zoom levels, alone and
\* together.
NextDrag ==
    \/ handleUpload
    \/ \E u \in DOMAIN uploads, img \in ImgSizes : handleUploadLoaded(u, img)
    \/ zoomOut
    \/ \E id \in Ids, shiftKey \in BOOLEAN :
            handleItemMouseDown(id, shiftKey, FALSE, mousePos)
    \/ \E p \in Points : handleMouseMove(p, FALSE)
    \/ handleMouseUp

SpecDrag == Init /\ [][NextDrag]_vars

\* An image is dragged while an edit of it is in flight.
NextDragEdit ==
    \/ handleUpload /\ nextId + Len(uploads') <= MaxJobs + 1
    \/ \E u \in DOMAIN uploads, img \in ImgSizes : handleUploadLoaded(u, img)
    \/ \E id \in Ids : handleItemMouseDown(id, FALSE, FALSE, mousePos)
    \/ \E p \in Points : handleMouseMove(p, FALSE)
    \/ handleMouseUp
    \/ \E id \in Ids : executeEdit(id) /\ jobCount' <= MaxJobs
    \/ \E j \in DOMAIN jobs, ok \in BOOLEAN : EditUpload(j, ok)
    \/ \E j \in DOMAIN jobs, ok \in BOOLEAN : EditQueue(j, ok)
    \/ \E j \in DOMAIN jobs, st \in HistoryStatus, parsed \in ParsedProgress :
            EditPoll(j, st, parsed)

SpecDragEdit == Init /\ [][NextDragEdit]_vars

----------------------------------------------------------------------------
(* Properties of the pasted items: z-order, selection, parent *)

\* C32: every pasted item is above every item the store held before the
\* paste, and two pasted items are in the z-order of the two items they
\* copy.
C32_PasteKeepsZOrder ==
    [][pasteItems =>
        LET n == Len(items) IN
        \A k \in DOMAIN clipboard :
            /\ \A i \in DOMAIN items : items[i].zIndex < items'[n + k].zIndex
            /\ \A j \in DOMAIN clipboard :
                    clipboard[k].zIndex < clipboard[j].zIndex
                        => items'[n + k].zIndex < items'[n + j].zIndex]_vars

\* C33: after a paste the selection is the set of the pasted items' ids,
\* and a single pasted item is the active item.
C33_PasteSelectsThePasted ==
    [][pasteItems =>
        LET n == Len(items) IN
        /\ selectedIds' = {items'[n + k].id : k \in DOMAIN clipboard}
        /\ Len(clipboard) = 1 => activeItemId' = items'[n + 1].id]_vars

\* One item was pasted while another item was selected and active: the
\* pasted one is now the selection and the active item.
C33_Witness ==
    /\ Len(clipboard) = 1
    /\ Len(items) = 3
    /\ Pasteable(items[3]) = Pasteable(clipboard[1])
    /\ items[3].id # clipboard[1].id
    /\ selectedIds = {items[3].id}
    /\ activeItemId = items[3].id
    /\ items[3].zIndex = topZ

\* C34: a pasted item has no parentId, whatever the item it copies has, and
\* a paste adds no derivation.
C34_PasteClearsParent ==
    [][pasteItems =>
        /\ \A k \in DOMAIN clipboard : items'[Len(items) + k].parentId = NoId
        /\ Derivations' = Derivations]_vars

\* An editor derived from an image of the store was copied and pasted.
C34_Witness ==
    /\ Len(items) >= 3
    /\ items[2].parentId = items[1].id
    /\ \E k \in DOMAIN clipboard : clipboard[k] = items[2]
    /\ \E i \in DOMAIN items :
            /\ i > 2
            /\ items[i].type = "editor"
            /\ items[i].parentId = NoId
    /\ Derivations = {<<items[1].id, items[2].id>>}

----------------------------------------------------------------------------
(* Invariants of the store *)

\* C38: no two items of the store have the same zIndex.
C38_ZIndexesAreDistinct ==
    \A i, j \in DOMAIN items : i # j => items[i].zIndex # items[j].zIndex

\* C39: every selected id, and the active id when there is one, is the id of
\* an item of the store.
C39_SelectionRefersToItems ==
    /\ \A id \in selectedIds : Has(items, id)
    /\ activeItemId # NoId => Has(items, activeItemId)

\* An item has been deleted, and the selection and the active item are
\* items that are left.
C39_Witness ==
    /\ nextId > Len(items) + 1
    /\ Len(items) >= 1
    /\ selectedIds # {}
    /\ activeItemId # NoId
    /\ \A id \in selectedIds \cup {activeItemId} : Has(items, id)

\* C40: a generator in mode 'result' has a resultImage.
C40_ResultHasImage ==
    \A i \in DOMAIN items :
        items[i].type = "generator" /\ items[i].mode = "result"
            => items[i].resultImage # 0

\* A generator shows the result of a job that succeeded.
C40_Witness ==
    \E i \in DOMAIN items :
        /\ items[i].type = "generator"
        /\ items[i].mode = "result"
        /\ items[i].resultImage # 0
        /\ ~items[i].isGenerating
        /\ jobs = <<>>

----------------------------------------------------------------------------
(* Jobs and the flags of their items *)

\* C36: no two jobs of the same kind are in flight for the same item.
C36_OneJobPerItem ==
    \A i, j \in DOMAIN jobs :
        i # j => ~(jobs[i].itemId = jobs[j].itemId /\ jobs[i].kind = jobs[j].kind)

\* A job of the given kind is in flight for the item with this id
InFlight(kind, id) ==
    \E j \in DOMAIN jobs : jobs[j].kind = kind /\ jobs[j].itemId = id

\* C37: an item whose isGenerating flag is true has a generation job in
\* flight, and one whose isEditing flag is true has an edit job in flight.
C37_FlagHasJob ==
    \A i \in DOMAIN items :
        /\ items[i].isGenerating => InFlight("gen", items[i].id)
        /\ items[i].isEditing => InFlight("edit", items[i].id)

----------------------------------------------------------------------------
(* Dragging: increments, and the source of a job that is dragged *)

\* The gap between the source and the Image spawned from it: 40 after an
\* edit session (line 655), 50 after an editor job (line 783)
SpawnOffset(job) == IF job.kind = "edit" THEN 40 ELSE 50

\* C35: the Image a job spawns is placed to the right of its source as the
\* store holds it when the job completes: x = source x + source width +
\* the offset, y = source y.
C35_SpawnIsBesideSource ==
    [][\A j \in DOMAIN jobs :
          SpawnStep(j) /\ Has(items, jobs[j].itemId) =>
            LET source == Find(items, jobs[j].itemId)
                spawned == items'[Len(items')]
            IN  /\ spawned.x = source.x + source.width + SpawnOffset(jobs[j])
                /\ spawned.y = source.y]_vars

\* The item is as it was, but for its position
SameButPosition(old, new) == [new EXCEPT !.x = old.x, !.y = old.y] = old

\* C31: a pointer-move of an item drag adds (pointer - previous sample) /
\* scale to the position of every selected item, changes nothing else of any
\* item, and makes the pointer the next sample; the press that starts the
\* drag makes the pointer the first sample and moves nothing.
C31_DragIsIncremental ==
    [][/\ \A p \in Points :
            handleMouseMove(p, FALSE) /\ isDragging /\ dragMode = "item" =>
                /\ DOMAIN items' = DOMAIN items
                /\ \A i \in DOMAIN items :
                        IF items[i].id \in selectedIds
                        THEN /\ RMul(RInt(items'[i].x - items[i].x), view.scale)
                                    = RInt(p.x - dragStart.x)
                             /\ RMul(RInt(items'[i].y - items[i].y), view.scale)
                                    = RInt(p.y - dragStart.y)
                             /\ SameButPosition(items[i], items'[i])
                        ELSE items'[i] = items[i]
                /\ dragStart' = p
       /\ \A id \in Ids, shiftKey \in BOOLEAN :
            handleItemMouseDown(id, shiftKey, FALSE, mousePos) =>
                /\ dragStart' = mousePos
                /\ \A i \in DOMAIN items :
                        items'[i].x = items[i].x /\ items'[i].y = items[i].y]_vars

\* Two of three images, uploaded side by side when zoomed out, are being
\* dragged together: they are the pointer's way, divided by the scale, from
\* the third.
C31_Witness ==
    /\ isDragging /\ dragMode = "item"
    /\ view.scale = RDiv(ScaleOne, ZoomStep)
    /\ dragStart = mousePos /\ mousePos # Point0
    /\ Cardinality(selectedIds) = 2
    /\ Len(items) = 3
    /\ \A i, j \in DOMAIN items :
            items[i].id \in selectedIds /\ items[j].id \notin selectedIds =>
                /\ RMul(RInt(items[i].x - items[j].x), view.scale)
                        = RInt(mousePos.x - Point0.x)
                /\ RMul(RInt(items[i].y - items[j].y), view.scale)
                        = RInt(mousePos.y - Point0.y)

====
